---- MODULE Spec2Model ----
(***************************************************************************)
(* The counter slice of client/src/features/counter/counterSlice.ts:       *)
(* the CounterState {value, status}, the three reducers, the three         *)
(* extraReducers cases of the incrementAsync thunk, the selector           *)
(* selectCount and the hand-written thunk incrementIfOdd.                  *)
(*                                                                         *)
(* The store is single-threaded: every dispatch runs its reducer to        *)
(* completion, so each dispatch is one action.  An incrementAsync          *)
(* invocation is a small process: it dispatches pending, awaits            *)
(* fetchCount, and its continuation dispatches fulfilled or rejected.      *)
(***************************************************************************)
EXTENDS Integers, Sequences, FiniteSets, TLC

\* ------------------------------------------------------------------ bounds
\* Synchronous operations are explored while |value| stays within MaxVal.
MaxVal == 3
\* Largest amount passed to incrementByAmount / incrementIfOdd / incrementAsync.
MaxAmount == 2
\* Number of incrementAsync invocations in one behaviour.
MaxInv == 2
\* Longest run of increments (and of decrements) tracked in one window.
MaxRun == 2

Values == (-MaxVal)..MaxVal
Amounts == (-MaxAmount)..MaxAmount
\* incrementAsync is tried with a negative, a zero and the largest amount.
AsyncAmounts == {-1, 0, MaxAmount}
Invs == 1..MaxInv

\* ------------------------------------------------------------------- state
VARIABLES
    state,      \* the CounterState held by the store: [value, status]
    pc,         \* position of each incrementAsync invocation
    amount,     \* the argument of each invocation in flight
    log,        \* lifecycle actions each invocation has dispatched, in order
    promise,    \* what the caller's promise of each invocation has done
    last,       \* the last operation applied to the store
    recent,     \* the most recent lifecycle action of any invocation, or "none"
    applied,    \* sum of the deltas of the synchronous operations applied and
                \* of the payloads of the fulfilled actions, so far
    run         \* the current window of consecutive increment/decrement calls

vars == <<state, pc, amount, log, promise, last, recent, applied, run>>

\* status: 'idle' | 'loading' | 'failed'
Status == {"idle", "loading", "failed"}

initialState == [value |-> 0, status |-> "idle"]

\* JavaScript's % on integers: the result takes the sign of the dividend.
JsRem(a, b) == IF a >= 0 THEN a % b ELSE -((-a) % b)

\* ------------------------------------------- faulty variants of the reducers
\* Each is the reducer below it with one plausible slip; the claims are
\* checked to tell the reducer from its variant.
decrementClamped(s) == [s EXCEPT !.value = IF @ > 0 THEN @ - 1 ELSE 0]

incrementByAmountFresh(s, payload) == [value |-> s.value + payload, status |-> "idle"]

incrementByAmountAssigns(s, payload) == [s EXCEPT !.value = payload]

pendingOnlyFromIdle(s) == IF s.status = "idle" THEN [s EXCEPT !.status = "loading"] ELSE s

fulfilledOverwrites(s, payload) == [s EXCEPT !.status = "idle", !.value = payload]

fulfilledDropsPayload(s, payload) == [s EXCEPT !.status = "idle"]

fulfilledKeepsFailed(s, payload) ==
    [s EXCEPT !.status = IF @ = "failed" THEN "failed" ELSE "idle", !.value = @ + payload]

rejectedKeepsStatus(s) == s

rejectedResets(s) == [value |-> 0, status |-> "failed"]

rejectedTypo(s) == [s EXCEPT !.status = "error"]

incrementFresh(s) == [value |-> s.value + 1, status |-> "idle"]

selectCountOrOne(s) == IF s.value = 0 THEN 1 ELSE s.value

\* ----------------------------------------------------------------- reducers
increment(s) == [s EXCEPT !.value = @ + 1]

decrement(s) == [s EXCEPT !.value = @ - 1]

incrementByAmount(s, payload) == [s EXCEPT !.value = @ + payload]

pendingCase(s) == [s EXCEPT !.status = "loading"]

fulfilledCase(s, payload) == [s EXCEPT !.status = "idle", !.value = @ + payload]

rejectedCase(s) == [s EXCEPT !.status = "failed"]

selectCount(s) == s.value

\* k successive dispatches of increment / of decrement.
RECURSIVE incrementTimes(_, _)
incrementTimes(s, k) == IF k = 0 THEN s ELSE incrementTimes(increment(s), k - 1)

RECURSIVE decrementTimes(_, _)
decrementTimes(s, k) == IF k = 0 THEN s ELSE decrementTimes(decrement(s), k - 1)

\* incrementIfOdd(amount)(dispatch, getState): the store state after the thunk ran.
incrementIfOdd(s, amt) ==
    LET currentValue == selectCount(s)
    IN  IF JsRem(currentValue, 2) = 1 THEN incrementByAmount(s, amt) ELSE s

\* fetchCount(amount) resolves with {data: amount}.
fetchCountData(amt) == amt

\* ------------------------------------------------------------ bookkeeping
NoInv == 0

\* The record of one operation: its name, the invocation it belongs to (NoInv
\* for a synchronous one), its argument or payload, the store state right
\* before it, the amount its invocation (if any) was started with, and, for
\* a lifecycle action that directly follows the pending of the same
\* invocation, the store state right before that pending.
Op(op, inv, arg) ==
    [op |-> op, inv |-> inv, arg |-> arg, pre |-> state,
     amt |-> IF inv # NoInv THEN amount[inv] ELSE 0,
     base |-> IF inv # NoInv /\ last.op = "pending" /\ last.inv = inv
              THEN <<last.pre>> ELSE <<>>]

Record(op, inv, arg) == last' = Op(op, inv, arg)

NewRun(s) == [start |-> s, incs |-> 0, decs |-> 0]

RunBase == IF run.incs + run.decs >= 2 * MaxRun THEN NewRun(state) ELSE run

\* A synchronous operation is explored when it leaves value within the range.
Explored(s) == s = state \/ s.value \in Values

SyncOps == {"increment", "decrement", "incrementByAmount", "incrementIfOdd"}

Init ==
    /\ state = initialState
    /\ pc = [i \in Invs |-> "new"]
    /\ amount = [i \in Invs |-> 0]
    /\ log = [i \in Invs |-> <<>>]
    /\ promise = [i \in Invs |-> "none"]
    /\ last = [op |-> "init", inv |-> NoInv, arg |-> 0, pre |-> initialState,
               amt |-> 0, base |-> <<>>]
    /\ recent = "none"
    /\ applied = 0
    /\ run = NewRun(initialState)

\* ------------------------------------------------------------------ actions
Increment ==
    /\ Explored(increment(state))
    /\ state' = increment(state)
    /\ Record("increment", NoInv, 0)
    /\ applied' = applied + 1
    /\ run' = [RunBase EXCEPT !.incs = @ + 1]
    /\ UNCHANGED <<pc, amount, log, promise, recent>>

Decrement ==
    /\ Explored(decrement(state))
    /\ state' = decrement(state)
    /\ Record("decrement", NoInv, 0)
    /\ applied' = applied - 1
    /\ run' = [RunBase EXCEPT !.decs = @ + 1]
    /\ UNCHANGED <<pc, amount, log, promise, recent>>

IncrementByAmount(n) ==
    /\ Explored(incrementByAmount(state, n))
    /\ state' = incrementByAmount(state, n)
    /\ Record("incrementByAmount", NoInv, n)
    /\ applied' = applied + n
    /\ run' = NewRun(state')
    /\ UNCHANGED <<pc, amount, log, promise, recent>>

IncrementIfOdd(n) ==
    /\ Explored(incrementIfOdd(state, n))
    /\ state' = incrementIfOdd(state, n)
    /\ Record("incrementIfOdd", NoInv, n)
    /\ applied' = applied + (IF JsRem(selectCount(state), 2) = 1 THEN n ELSE 0)
    /\ run' = NewRun(state')
    /\ UNCHANGED <<pc, amount, log, promise, recent>>

\* selectCount(getState()) called by a reader: the store is not touched.
SelectCount ==
    /\ state' = state
    /\ Record("selectCount", NoInv, selectCount(state))
    /\ UNCHANGED <<pc, amount, log, promise, recent, applied, run>>

\* dispatch(incrementAsync(n)): pending is dispatched synchronously, then the
\* payload creator starts and suspends at `await fetchCount(amount)`.
IncrementAsync(i, n) ==
    /\ pc[i] = "new"
    /\ \A j \in Invs : j < i => pc[j] # "new"
    /\ state' = pendingCase(state)
    /\ pc' = [pc EXCEPT ![i] = "awaiting"]
    /\ amount' = [amount EXCEPT ![i] = n]
    /\ log' = [log EXCEPT ![i] = Append(@, "pending")]
    /\ promise' = [promise EXCEPT ![i] = "waiting"]
    /\ Record("pending", i, n)
    /\ UNCHANGED applied
    /\ recent' = "pending"
    /\ run' = NewRun(state')

\* fetchCount resolved: the continuation returns response.data and the thunk
\* dispatches fulfilled with it, in the same turn of the task queue.  The
\* invocation's closure (amount) is gone afterwards.
IncrementAsyncFulfilled(i) ==
    /\ pc[i] = "awaiting"
    /\ state' = fulfilledCase(state, fetchCountData(amount[i]))
    /\ pc' = [pc EXCEPT ![i] = "done"]
    /\ amount' = [amount EXCEPT ![i] = 0]
    /\ log' = [log EXCEPT ![i] = Append(@, "fulfilled")]
    /\ promise' = [promise EXCEPT ![i] = "resolved"]
    /\ Record("fulfilled", i, fetchCountData(amount[i]))
    /\ applied' = applied + fetchCountData(amount[i])
    /\ recent' = "fulfilled"
    /\ run' = NewRun(state')

\* Faulty variant: the failure is not caught, nothing is dispatched and the
\* caller's promise throws.
RejectionEscapes(i) ==
    /\ pc[i] = "awaiting"
    /\ pc' = [pc EXCEPT ![i] = "done"]
    /\ amount' = [amount EXCEPT ![i] = 0]
    /\ promise' = [promise EXCEPT ![i] = "thrown"]
    /\ UNCHANGED <<state, log, last, recent, applied, run>>

\* fetchCount rejected: the await throws, the thunk catches it and dispatches
\* rejected; the caller's promise still resolves (with the rejected action).
IncrementAsyncRejected(i) ==
    /\ pc[i] = "awaiting"
    /\ state' = rejectedCase(state)
    /\ pc' = [pc EXCEPT ![i] = "done"]
    /\ amount' = [amount EXCEPT ![i] = 0]
    /\ log' = [log EXCEPT ![i] = Append(@, "rejected")]
    /\ promise' = [promise EXCEPT ![i] = "resolved"]
    /\ Record("rejected", i, 0)
    /\ UNCHANGED applied
    /\ recent' = "rejected"
    /\ run' = NewRun(state')

Next ==
    \/ Increment
    \/ Decrement
    \/ \E n \in Amounts : IncrementByAmount(n)
    \/ \E n \in Amounts : IncrementIfOdd(n)
    \/ SelectCount
    \/ \E i \in Invs, n \in AsyncAmounts : IncrementAsync(i, n)
    \/ \E i \in Invs : IncrementAsyncFulfilled(i)
    \/ \E i \in Invs : IncrementAsyncRejected(i)

Spec == Init /\ [][Next]_vars

\* The fetcher eventually settles every fetch, one way or the other.
Fairness ==
    \A i \in Invs : WF_vars(IncrementAsyncFulfilled(i) \/ IncrementAsyncRejected(i))

LiveSpec == Spec /\ Fairness

\* ------------------------------------------------------------------ claims

Terminal == {"fulfilled", "rejected"}

InFlight == {i \in Invs : log[i] = <<"pending">>}

\* C1: every incrementAsync invocation dispatches pending first and then, the
\* fetcher settling, exactly one of fulfilled or rejected and nothing after
\* it; a fetch failure ends in rejected and the caller's promise never throws.
C1_Lifecycle ==
    /\ [](\A i \in Invs :
            /\ log[i] \in {<<>>, <<"pending">>} \cup {<<"pending", t>> : t \in Terminal}
            /\ (pc[i] # "new" => Len(log[i]) >= 1)
            /\ (pc[i] = "done" => Len(log[i]) = 2)
            /\ promise[i] # "thrown")
    /\ [][\A i \in Invs : Len(log[i]) = 2 => log'[i] = log[i]]_vars
    /\ \A i \in Invs : (log[i] = <<"pending">>) ~> (Len(log[i]) = 2)

C1_Witness ==
    \E i, j \in Invs :
        /\ log[i] = <<"pending", "rejected">> /\ promise[i] = "resolved"
        /\ log[j] = <<"pending", "fulfilled">> /\ promise[j] = "resolved"

\* C2: status is loading only while some invocation has dispatched pending
\* and not yet fulfilled or rejected.
C2_LoadingOnlyInFlight == state.status = "loading" => InFlight # {}

C2_Witness ==
    /\ state.status = "loading"
    /\ Cardinality(InFlight) >= 2
    /\ last.op = "pending"

\* C3: incrementIfOdd(n) on value v yields v + n when v is odd (positive or
\* negative) and leaves the state unchanged when v is even.
C3_IncrementIfOddParity ==
    last.op = "incrementIfOdd" =>
        state = IF last.pre.value % 2 = 1
                THEN [last.pre EXCEPT !.value = @ + last.arg]
                ELSE last.pre

\* C4: a fulfilled event with payload r leaves status idle and value equal to
\* the value right before it plus r; r is the amount the invocation was
\* started with, so when nothing came between pending and fulfilled the state
\* is the one before the invocation with the amount added and status idle.
C4_Fulfilled ==
    last.op = "fulfilled" =>
        /\ state = [value |-> last.pre.value + last.arg, status |-> "idle"]
        /\ last.arg = last.amt
        /\ (last.base # <<>> =>
                state = [value |-> last.base[1].value + last.amt, status |-> "idle"])

C4_Witness ==
    /\ last.op = "fulfilled"
    /\ last.base # <<>>
    /\ last.base[1].status = "idle"
    /\ last.amt = MaxAmount
    /\ state.value = last.base[1].value + MaxAmount

\* C5: a rejected event leaves status failed and value as it was right before
\* it, whatever the prior status; the state gains no other field.
C5_Rejected ==
    last.op = "rejected" =>
        /\ state = [last.pre EXCEPT !.status = "failed"]
        /\ DOMAIN state = {"value", "status"}

C5_Witness ==
    /\ last.op = "rejected"
    /\ last.pre.status = "idle"
    /\ last.pre.value # 0
    /\ state.status = "failed"

\* C6: invoking incrementAsync sets status loading at once and leaves value
\* unchanged, whatever the previous status.
C6_Pending == last.op = "pending" => state = [last.pre EXCEPT !.status = "loading"]

C6_Witness ==
    /\ last.op = "pending"
    /\ last.pre.status = "failed"
    /\ last.pre.value # 0
    /\ state.status = "loading"

\* C7: once failed, status stays failed across increment, decrement,
\* incrementByAmount and incrementIfOdd, and leaves failed only by a pending
\* event (to loading) or a fulfilled event (to idle).
C7_FailedSticks ==
    [][state.status = "failed" =>
          /\ (last'.op \in SyncOps => state'.status = "failed")
          /\ (state'.status # "failed" =>
                 \/ last'.op = "pending" /\ state'.status = "loading"
                 \/ last'.op = "fulfilled" /\ state'.status = "idle")]_vars

C7_Witness ==
    /\ state.status = "failed"
    /\ last.op = "incrementIfOdd"
    /\ last.pre.status = "failed"
    /\ state.value # last.pre.value

\* C8: k increments and k decrements, in any order, bring the whole state back
\* to where the run started.
C8_InverseCounts == run.incs = run.decs => state = run.start

C8_Witness ==
    /\ run.incs = MaxRun
    /\ run.decs = MaxRun
    /\ run.start.status = "failed"
    /\ last.op = "increment"

\* C9: incrementByAmount(n) gives the state n increments give when n >= 0,
\* and the state |n| decrements give when n < 0.
C9_ByAmountIsRepeat ==
    last.op = "incrementByAmount" =>
        state = IF last.arg >= 0
                THEN incrementTimes(last.pre, last.arg)
                ELSE decrementTimes(last.pre, -last.arg)

C9_Witness ==
    /\ last.op = "incrementByAmount"
    /\ last.arg = -MaxAmount
    /\ state = decrementTimes(last.pre, MaxAmount)
    /\ last.pre.status = "loading"

\* C10: from {value: 0, status: idle}, status is always one of idle, loading,
\* failed.
C10_StatusInRange == state.status \in Status

C10_Witness ==
    /\ state.status = "failed"
    /\ last.op = "rejected"
    /\ last.pre.status = "loading"

\* C11: increment, decrement and incrementByAmount are enabled in every state,
\* whatever the status, and each changes value alone (by +1, -1, +n) and
\* leaves status as it was.
C11_SyncFrame ==
    /\ (last.op = "increment" => state = [last.pre EXCEPT !.value = @ + 1])
    /\ (last.op = "decrement" => state = [last.pre EXCEPT !.value = @ - 1])
    /\ (last.op = "incrementByAmount" =>
            state = [last.pre EXCEPT !.value = @ + last.arg])
    /\ (state.value + 1 \in Values => ENABLED Increment)
    /\ (state.value - 1 \in Values => ENABLED Decrement)
    /\ \A n \in Amounts : state.value + n \in Values => ENABLED IncrementByAmount(n)

C11_Witness ==
    /\ last.op = "increment"
    /\ last.pre.status = "loading"
    /\ state.status = "loading"
    /\ state.value = last.pre.value + 1
    /\ InFlight # {}

\* C12: no update is lost: value is the initial value plus the deltas of all
\* synchronous operations applied plus the payloads of all fulfilled actions,
\* whatever was dispatched between a pending and its fulfilled and whatever
\* the order in which overlapping invocations resolve.
C12_NoLostUpdate == state.value = initialState.value + applied

\* Invocation 1 started first and is fulfilled last, after invocation 2 was
\* fulfilled and after something else was applied since its own pending.
C12_Witness ==
    /\ MaxInv >= 2
    /\ last.op = "fulfilled" /\ last.inv = 1 /\ last.base = <<>>
    /\ last.amt # 0
    /\ log[1] = <<"pending", "fulfilled">>
    /\ log[2] = <<"pending", "fulfilled">>
    /\ state.value # 0

\* C13: status follows the most recent lifecycle action of any invocation:
\* idle after none or a fulfilled, loading after a pending, failed after a
\* rejected; the state holds nothing per invocation, so one invocation's
\* resolution overwrites the loading another one set.
C13_StatusIsMostRecent ==
    /\ state.status = CASE recent = "pending" -> "loading"
                        [] recent = "rejected" -> "failed"
                        [] OTHER -> "idle"
    /\ recent \in {"none", "pending", "fulfilled", "rejected"}
    /\ DOMAIN state = {"value", "status"}

\* One invocation is fulfilled while another is still in flight: status is
\* idle although a fetch is outstanding.
C13_Witness ==
    /\ recent = "fulfilled"
    /\ last.op \in SyncOps
    /\ state.status = "idle"
    /\ InFlight # {}

\* C14: selectCount returns exactly the current value and changes nothing,
\* and incrementIfOdd on an even value changes nothing: value and status are
\* the same before and after.
C14_ReadOnly ==
    /\ (last.op = "selectCount" => last.arg = state.value /\ state = last.pre)
    /\ (last.op = "incrementIfOdd" /\ last.pre.value % 2 = 0 => state = last.pre)

C14_Witness ==
    /\ last.op = "selectCount"
    /\ last.arg = state.value
    /\ last.pre = state
    /\ state.value < 0
    /\ state.status = "loading"

====
